---- MODULE Spec2Model ----
(***************************************************************************)
(* A model of gdbx.py: GDB commands that dump a value or a memory range    *)
(* into a temporary file and hand the file to hexdump(1), iconv(1) or      *)
(* xmllint(1).                                                             *)
(*                                                                         *)
(* Python strings are sequences of one-character strings, so that find,    *)
(* strip, split, replace and the regular expression of IconvImpl are       *)
(* computed character by character.                                        *)
(***************************************************************************)
EXTENDS Integers, Sequences, FiniteSets, TLC

VARIABLES
    encodings,   \* IconvEncodings.encodings (class attribute): None or a dict
    keyorder,    \* the iteration order of that dict (iterkeys)
    listed,      \* stdout of the last `iconv -l` run (what the dict was built from)
    queries,     \* how many times `iconv -l` was launched or attempted
    loadraised,  \* how many IconvEncodings() constructions raised
    constructions, \* how many IconvEncodings() constructions were started
    defenc,      \* sys.getdefaultencoding()
    completion,  \* result of the last IconvEncodings.complete call
    pc,          \* position inside GdbDumpParent.invoke ("idle" between commands)
    cmd,         \* the export command being invoked
    args,        \* its raw argument string
    dump_args,   \* first component of parse_arguments(args)
    exec_args,   \* second component of parse_arguments(args)
    tmp,         \* tmp.name of the invocation's NamedTemporaryFile (0: none)
    live,       \* the temporary files that exist
    snapshot,    \* outcome of gdb's dump in this invocation
    resolved,    \* execute_iconv: the list 'encodings' of resolved names
    launches,    \* subprocesses launched by this invocation, in order
    term,        \* what the current command wrote to the operator, in order
    runs,        \* what each launched subprocess did, in order
    returned,    \* what self.execute returned to invoke ("none" before that)
    exc,         \* exception in flight inside invoke ("none" if none)
    raised       \* exception the last finished invoke propagated to gdb

vars == <<encodings, keyorder, listed, queries, loadraised, constructions,
          defenc, completion,
          pc, cmd, args, dump_args, exec_args, tmp, live, snapshot,
          resolved, launches, term, runs, returned, exc,
          raised>>

regvars == <<encodings, keyorder, listed, queries, loadraised, constructions,
             defenc, completion>>

invvars == <<pc, cmd, tmp, live, snapshot, resolved, launches, term,
             runs, returned, exc, raised>>

partvars == <<args, dump_args, exec_args>>

(***************************************************************************)
(* Bounds of the model.                                                    *)
(***************************************************************************)
\* longest raw argument string enumerated for the partitioners
MaxArgLen == 4
\* longest `iconv -l` output enumerated character by character
MaxListLen == 3
\* most alias tokens in an iconv command line
MaxAliases == 2
\* temporary file names available to NamedTemporaryFile
MaxPaths == 2
\* constructions of IconvEncodings counted
MaxConstructions == 3
\* longest word completion is asked for
MaxWordLen == 3

(***************************************************************************)
(* Python string primitives.                                               *)
(***************************************************************************)
Whitespace == {" ", "\t", "\n"}

Min(S) == CHOOSE x \in S : \A y \in S : x <= y

Max(S) == CHOOSE x \in S : \A y \in S : x >= y

\* s[i:j] for 0 <= i, j <= len(s)
Slice(s, i, j) == SubSeq(s, i + 1, j)

\* s.startswith(sub, i)
MatchesAt(s, sub, i) ==
    /\ i + Len(sub) <= Len(s)
    /\ \A k \in 1..Len(sub) : s[i + k] = sub[k]

\* s.find(sub): lowest index, -1 when absent
Find(s, sub) ==
    LET hits == {i \in 0..Len(s) : MatchesAt(s, sub, i)}
    IN  IF hits = {} THEN -1 ELSE Min(hits)

\* s.rfind(sub): highest index, -1 when absent
RFind(s, sub) ==
    LET hits == {i \in 0..Len(s) : MatchesAt(s, sub, i)}
    IN  IF hits = {} THEN -1 ELSE Max(hits)

\* s.lstrip(chars)
LStripSet(s, chars) ==
    LET keep == {i \in 1..Len(s) : s[i] \notin chars}
    IN  IF keep = {} THEN <<>> ELSE SubSeq(s, Min(keep), Len(s))

\* s.rstrip(chars)
RStripSet(s, chars) ==
    LET keep == {i \in 1..Len(s) : s[i] \notin chars}
    IN  IF keep = {} THEN <<>> ELSE SubSeq(s, 1, Max(keep))

\* s.strip()
Strip(s) == LStripSet(RStripSet(s, Whitespace), Whitespace)

\* c.lower()
Lower(c) ==
    CASE c = "A" -> "a" [] c = "B" -> "b" [] c = "C" -> "c" [] c = "D" -> "d"
      [] c = "E" -> "e" [] c = "F" -> "f" [] c = "G" -> "g" [] c = "H" -> "h"
      [] c = "I" -> "i" [] c = "J" -> "j" [] c = "K" -> "k" [] c = "L" -> "l"
      [] c = "M" -> "m" [] c = "N" -> "n" [] c = "O" -> "o" [] c = "P" -> "p"
      [] c = "Q" -> "q" [] c = "R" -> "r" [] c = "S" -> "s" [] c = "T" -> "t"
      [] c = "U" -> "u" [] c = "V" -> "v" [] c = "W" -> "w" [] c = "X" -> "x"
      [] c = "Y" -> "y" [] c = "Z" -> "z"
      [] OTHER -> c

LowerStr(s) == [i \in 1..Len(s) |-> Lower(s[i])]

\* s.replace(old, new) for a one-character old
Replace(s, old, new) == [i \in 1..Len(s) |-> IF s[i] = old THEN new ELSE s[i]]

\* s.split(sep) for a one-character sep: always at least one field
RECURSIVE SplitOn(_, _)
SplitOn(s, sep) ==
    LET i == Find(s, <<sep>>)
    IN  IF i < 0 THEN <<s>>
        ELSE <<Slice(s, 0, i)>> \o SplitOn(Slice(s, i + 1, Len(s)), sep)

\* s.split(): whitespace-separated words, no empty word
RECURSIVE SplitWords(_)
SplitWords(s) ==
    LET t == LStripSet(s, Whitespace)
        ends == {i \in 1..Len(t) : t[i] \in Whitespace}
        n == IF ends = {} THEN Len(t) ELSE Min(ends) - 1
    IN  IF t = <<>> THEN <<>>
        ELSE <<SubSeq(t, 1, n)>> \o SplitWords(SubSeq(t, n + 1, Len(t)))

\* every string over alphabet A of length at most n
StringsUpTo(A, n) == UNION {[1..k -> A] : k \in 0..n}

(***************************************************************************)
(* The argument partitioners.                                              *)
(***************************************************************************)
Marker == <<"#", "#">>

\* GdbDumpParent.parse_arguments (the default, overridden by every command)
GdbDumpParent_parse_arguments(a) == <<a, <<>>>>

\* HexdumpImpl.parse_argument
HexdumpImpl_parse_argument(a) ==
    LET idx == Find(a, Marker)
    IN  IF idx < 0 THEN <<a, <<>>>>
        ELSE <<Strip(Slice(a, 0, idx)), Strip(Slice(a, idx + 2, Len(a)))>>

\* XmllintImpl.partition
XmllintImpl_partition(a) ==
    LET idx == RFind(a, Marker)
    IN  IF idx < 0 THEN <<a, <<>>>>
        ELSE <<Strip(Slice(a, 0, idx)), Strip(Slice(a, idx + 2, Len(a)))>>

\* the characters of [a-z0-9_]
AliasChars == {"a", "b", "c", "d", "e", "f", "g", "h", "i", "j", "k", "l", "m",
               "n", "o", "p", "q", "r", "s", "t", "u", "v", "w", "x", "y", "z",
               "0", "1", "2", "3", "4", "5", "6", "7", "8", "9", "_"}

\* re_encoding = ([ ]*(#[a-z0-9_]+))+ can match starting at index i
re_encoding_match(s, i) ==
    \E j \in i..(Len(s) - 2) :
        /\ \A k \in (i + 1)..j : s[k] = " "
        /\ s[j + 1] = "#"
        /\ s[j + 2] \in AliasChars

\* re_encoding.search(s).start(), -1 when search returns None
re_encoding_search(s) ==
    LET hits == {i \in 0..Len(s) : re_encoding_match(s, i)}
    IN  IF hits = {} THEN -1 ELSE Min(hits)

\* IconvImpl.partition
IconvImpl_partition(a) ==
    LET idx == re_encoding_search(a)
    IN  IF idx < 0 THEN <<a, <<>>>>
        ELSE <<Slice(a, 0, idx), Slice(a, idx, Len(a))>>

Cmds == {"hexdump value", "hexdump memory", "iconv value", "iconv memory",
         "xmllint value", "xmllint memory"}

HexdumpCmds == {"hexdump value", "hexdump memory"}

IconvCmds == {"iconv value", "iconv memory"}

XmllintCmds == {"xmllint value", "xmllint memory"}

MemoryCmds == {"hexdump memory", "iconv memory", "xmllint memory"}

\* self.parse_arguments(args) as each command class overrides it
parse_arguments(c, a) ==
    CASE c \in HexdumpCmds -> HexdumpImpl_parse_argument(a)
      [] c \in IconvCmds -> IconvImpl_partition(a)
      [] c \in XmllintCmds -> XmllintImpl_partition(a)

(***************************************************************************)
(* The encoding alias registry (class IconvEncodings).                     *)
(***************************************************************************)
\* replaces with the closing parenthesis forgotten
replaces_without_paren == <<".", "/", ":", "-", "(">>

\* IconvEncodings.replaces
replaces == <<".", "/", ":", "-", "(", ")">>

\* the loop `for repl in IconvEncodings.replaces: alias = alias.replace(repl, "_")`
RECURSIVE ReplaceEach(_, _)
ReplaceEach(s, rs) ==
    IF rs = <<>> THEN s ELSE ReplaceEach(Replace(s, Head(rs), "_"), Tail(rs))

\* enc.rstrip("/")
canonical_name(line) == RStripSet(line, {"/"})

\* the alias computed from the stripped name enc
derive_alias(enc) == ReplaceEach(LowerStr(enc), replaces)

\* one write to the operator: which write of the source it is, and the text
\* that write puts into its format
Written(what, text) == [what |-> what, text |-> text]

EmptyDict == [k \in {} |-> <<>>]

\* a dict that keeps the value a key already has
DictPutFirst(d, k, v) ==
    [x \in DOMAIN d \cup {k} |-> IF x \in DOMAIN d THEN d[x] ELSE v]

\* ret[alias] = enc
DictPut(d, k, v) == [x \in DOMAIN d \cup {k} |-> IF x = k THEN v ELSE d[x]]

\* the loop over enclist, from left to right
RECURSIVE BuildDict(_, _)
BuildDict(enclist, ret) ==
    IF enclist = <<>> THEN ret
    ELSE LET enc == canonical_name(Head(enclist))
         IN  BuildDict(Tail(enclist), DictPut(ret, derive_alias(enc), enc))

\* IconvEncodings.supported_encodings, given what `iconv -l` wrote to stdout
supported_encodings(outbuf) == BuildDict(SplitOn(outbuf, "\n"), EmptyDict)

\* every order in which a dict with these keys may be iterated
KeyOrders(keys) ==
    {o \in [1..Cardinality(keys) -> keys] :
        \A i, j \in 1..Cardinality(keys) : o[i] = o[j] => i = j}

\* IconvEncodings.encodings == None
NoneDict == [isNone |-> TRUE, items |-> EmptyDict]

SomeDict(d) == [isNone |-> FALSE, items |-> d]

\* the value None and a string never compare equal
None == <<"None">>

\* IconvEncodings.name
IconvEncodings_name(enc, alias) ==
    LET a == LStripSet(alias, {"#"})
    IN  IF a \in DOMAIN enc.items THEN enc.items[a] ELSE None

\* complete with the test a.find(word) >= 0: the word anywhere in the key
RECURSIVE complete_anywhere(_, _)
complete_anywhere(order, word) ==
    IF order = <<>> THEN <<>>
    ELSE (IF Find(Head(order), word) >= 0 THEN <<Head(order)>> ELSE <<>>)
         \o complete_anywhere(Tail(order), word)

\* the list built by IconvEncodings.complete: keys in iteration order, kept
\* when a.find(word) == 0
RECURSIVE IconvEncodings_complete(_, _)
IconvEncodings_complete(order, word) ==
    IF order = <<>> THEN <<>>
    ELSE (IF Find(Head(order), word) = 0 THEN <<Head(order)>> ELSE <<>>)
         \o IconvEncodings_complete(Tail(order), word)

N_UTF8 == <<"U", "T", "F", "-", "8">>

N_UTF16 == <<"U", "T", "F", "-", "1", "6">>

N_EUCKR == <<"E", "U", "C", "-", "K", "R">>

N_ISO1 == <<"I", "S", "O", "-", "8", "8", "5", "9", "-", "1">>

N_ISO1U == <<"I", "S", "O", "_", "8", "8", "5", "9", "-", "1">>

N_ISO10 == <<"I", "S", "O", "_", "8", "8", "5", "9", "-", "1", "0", ":", "1", "9",
            "9", "2">>

\* a name with the other replaced characters
N_PUNCT == <<"A", ".", "(", "B", ")", "/", "C">>

N_ASCII == <<"a", "s", "c", "i", "i">>

Line(name) == name \o <<"/", "/", "\n">>

\* outputs of `iconv -l` as glibc prints them into a pipe
SampleListings ==
    { Line(N_UTF8) \o Line(N_UTF16) \o Line(N_EUCKR),
      Line(N_ISO1) \o Line(N_ISO1U),
      Line(N_ISO1),
      Line(N_ISO10) \o Line(N_PUNCT) }

ListAlphabet == {"A", "a", "-", "/", "\n"}

\* what `iconv -l` may write: the samples and every short text
IconvOutputs == SampleListings \cup StringsUpTo(ListAlphabet, MaxListLen)

ExitStatuses == {0, 1}

\* a record of one `iconv -l` launch
NotListed == [kind |-> "none", out |-> <<>>, status |-> 0]

\* the codecs sys.setdefaultencoding accepts
PythonCodecs == {N_ASCII, N_UTF8, N_UTF16, N_EUCKR, N_ISO1, N_ISO1U}

\* IconvEncodings.__init__ when the class attribute is None and iconv runs:
\* the exit status is not looked at
LoadOk(out, status, order) ==
    /\ encodings' = SomeDict(supported_encodings(out))
    /\ keyorder' = order
    /\ listed' = [kind |-> "ran", out |-> out, status |-> status]
    /\ queries' = queries + 1
    /\ UNCHANGED <<loadraised, defenc, completion, term>>

\* IconvEncodings.__init__ when Popen raises OSError: supported_encodings prints
\* "error: cannot get supported encoding list" and re-raises; nothing is assigned
LoadRaises ==
    /\ encodings.isNone
    /\ listed' = [kind |-> "oserror", out |-> <<>>, status |-> 0]
    /\ queries' = queries + 1
    /\ loadraised' = loadraised + 1
    /\ term' = Append(term,
                      Written("error: cannot get supported encoding list", <<>>))
    /\ UNCHANGED <<encodings, keyorder, defenc, completion>>

\* __init__ without the test for None: the list is fetched again
LoadAgain ==
    /\ ~encodings.isNone
    /\ queries' = queries + 1
    /\ UNCHANGED <<encodings, keyorder, listed, loadraised, defenc, completion,
                   term>>

\* IconvEncodings.__init__ when the class attribute is already set
LoadCached ==
    /\ ~encodings.isNone
    /\ UNCHANGED <<encodings, keyorder, listed, queries, loadraised, defenc,
                   completion, term>>

\* one construction of IconvEncodings (by a command object's __init__)
Construct ==
    /\ pc = "idle"
    /\ constructions < MaxConstructions
    /\ constructions' = constructions + 1
    /\ \/ /\ encodings.isNone
          /\ \E out \in IconvOutputs, status \in ExitStatuses :
                 \E order \in KeyOrders(DOMAIN supported_encodings(out)) :
                     LoadOk(out, status, order)
       \/ LoadRaises
       \/ LoadCached
    /\ UNCHANGED <<pc, cmd, tmp, live, snapshot, resolved, launches, runs,
                   returned, exc, raised>>
    /\ UNCHANGED partvars

NoCompletion == [called |-> FALSE, word |-> <<>>, result |-> <<>>]

\* the words completion is asked for: every prefix of a key, and a word that
\* is no prefix
CompletionWords ==
    UNION {{SubSeq(a, 1, k) : k \in 0..(IF Len(a) < MaxWordLen THEN Len(a)
                                         ELSE MaxWordLen)} :
           a \in DOMAIN encodings.items}
    \cup {<<"x">>}

\* IconvEncodingCommand.complete / IconvImpl.complete_any -> IconvEncodings.complete
Complete ==
    /\ pc = "idle"
    /\ ~encodings.isNone
    /\ \E word \in CompletionWords :
           completion' = [called |-> TRUE, word |-> word,
                          result |-> IconvEncodings_complete(keyorder, word)]
    /\ UNCHANGED <<encodings, keyorder, listed, queries, loadraised,
                   constructions, defenc>>
    /\ UNCHANGED <<invvars, partvars>>

InitIdle ==
    /\ pc = "idle"
    /\ cmd = "none"
    /\ tmp = 0
    /\ live = {}
    /\ snapshot = "none"
    /\ resolved = <<>>
    /\ launches = <<>>
    /\ term = <<>>
    /\ runs = <<>>
    /\ returned = "none"
    /\ exc = "none"
    /\ raised = "none"

\* before the first IconvEncodings() of the script
InitRegistry ==
    /\ encodings = NoneDict
    /\ keyorder = <<>>
    /\ listed = NotListed
    /\ queries = 0
    /\ loadraised = 0
    /\ constructions = 0
    /\ defenc = N_ASCII
    /\ completion = NoCompletion
    /\ InitIdle
    /\ args = <<>>
    /\ dump_args = <<>>
    /\ exec_args = <<>>

NextRegistry == Construct \/ Complete

\* the registry alone: constructions and completions
SpecRegistry == InitRegistry /\ [][NextRegistry]_vars

(***************************************************************************)
(* The export commands (GdbDumpParent.invoke and what it calls).           *)
(***************************************************************************)
S_buf == <<"b", "u", "f">>

S_buf_end == <<"b", "u", "f", " ", "e", "n", "d">>

T_b == <<" ", "#", "#", " ", "-", "b">>

T_x == <<" ", "#", "#", " ", "-", "x">>

A_utf_8 == <<" ", "#", "u", "t", "f", "_", "8">>

A_euc_kr == <<" ", "#", "e", "u", "c", "_", "k", "r">>

A_bogus == <<" ", "#", "b", "o", "g", "u", "s">>

\* a token that is the marker alone
A_marker == <<" ", "#">>

Selectors == {<<>>, S_buf, S_buf_end}

MarkerTails == {<<>>, T_b, T_b \o T_x}

AliasTokens == {A_utf_8, A_euc_kr, A_bogus}

\* every concatenation of at most n alias tokens
RECURSIVE AliasTails(_)
AliasTails(n) ==
    IF n = 0 THEN {<<>>}
    ELSE AliasTails(n - 1) \cup {t \o a : t \in AliasTails(n - 1), a \in AliasTokens}

\* the argument strings the operator types after each command
RawArgs(c) ==
    IF c \in IconvCmds
    THEN {sel \o t : sel \in Selectors,
                     t \in AliasTails(MaxAliases) \cup {T_b, A_utf_8 \o A_marker}}
    ELSE {sel \o t : sel \in Selectors, t \in MarkerTails \cup {A_utf_8}}

Paths == 1..MaxPaths

\* what gdb.execute("dump ...") may do: write the file, raise gdb.error (a
\* RuntimeError), or raise KeyboardInterrupt; a value without an expression and
\* a memory range without both addresses are always an error
HostOutcomes(c, a) ==
    IF Len(SplitWords(a)) < (IF c \in MemoryCmds THEN 2 ELSE 1)
    THEN {"error", "interrupted"}
    ELSE {"ok", "error", "interrupted"}

\* "%s" % v
PercentS(v) == IF v = None THEN <<"N", "o", "n", "e">> ELSE v

\* cmd_dump: the snapshot request; a RuntimeError is reported, not re-raised
cmd_dump(outcome) ==
    /\ snapshot' = outcome
    /\ term' = IF outcome = "error"
               THEN Append(term, Written("error: host message", <<>>))
               ELSE term
    /\ exc' = IF outcome = "interrupted" THEN "KeyboardInterrupt" ELSE "none"
    /\ pc' = IF outcome = "interrupted" THEN "except" ELSE "execute"

\* a command line that is always a string
HexdumpImpl_commandline_string(filename, a) ==
    [tool |-> "hexdump", islist |-> FALSE, mid |-> a,
     file |-> filename, target |-> <<>>, source |-> <<>>]

\* HexdumpImpl.commandline: a list without arguments, a string with them
HexdumpImpl_commandline(filename, a) ==
    IF a = <<>>
    THEN [tool |-> "hexdump", islist |-> TRUE, mid |-> <<"-", "C">>,
          file |-> filename, target |-> <<>>, source |-> <<>>]
    ELSE [tool |-> "hexdump", islist |-> FALSE, mid |-> a,
          file |-> filename, target |-> <<>>, source |-> <<>>]

\* XmllintImpl.commandline: always a string
XmllintImpl_commandline(filename, a) ==
    [tool |-> "xmllint", islist |-> FALSE, mid |-> a,
     file |-> filename, target |-> <<>>, source |-> <<>>]

\* the list cmdline of execute_iconv
iconv_cmdline(filename, target, enc) ==
    [tool |-> "iconv", islist |-> TRUE, mid |-> <<>>,
     file |-> filename, target |-> target, source |-> enc]

commandline(c, filename, a) ==
    IF c \in HexdumpCmds THEN HexdumpImpl_commandline(filename, a)
    ELSE XmllintImpl_commandline(filename, a)

\* use_shell of GdbDumpParent.execute
use_shell(cmdline) == ~cmdline.islist

\* what a tool may write to stdout
OutTexts == {<<>>, <<"o", "k">>}

E_plain == <<"i", "c", "o", "n", "v", ":", " ", "x">>

\* the tool named by its path, and a second line
E_path == <<"/", "i", "c", "o", "n", "v", ":", " ", "x", "\n", "y">>

\* a first line that does not name the tool
E_other == <<"x", "\n">>

\* what a tool may write to stderr
ErrTexts == {<<>>, E_plain, E_path, E_other}

\* the file closed only on the normal path (no with, no finally)
exit_without_cleanup(files, name, inflight) ==
    IF inflight = "none" THEN files \ {name} ELSE files

\* the with statement leaving its block: NamedTemporaryFile deletes the file,
\* whether or not an exception is in flight
with_exit(files, name, inflight) == files \ {name}

\* invoke, line 144: tmp = NamedTemporaryFile(prefix="gdb-")
InvokeEnter ==
    /\ pc = "idle"
    /\ ~encodings.isNone
    /\ \E c \in Cmds :
         \E a \in RawArgs(c), p \in Paths \ live :
           /\ cmd' = c
           /\ args' = a
           /\ tmp' = p
           /\ live' = live \cup {p}
    /\ pc' = "parse"
    /\ term' = <<>>
    /\ UNCHANGED <<dump_args, exec_args, snapshot, resolved, launches, runs, returned,
                   exc, raised>>
    /\ UNCHANGED regvars

\* invoke, line 148
ParseArguments ==
    /\ pc = "parse"
    /\ dump_args' = parse_arguments(cmd, args)[1]
    /\ exec_args' = parse_arguments(cmd, args)[2]
    /\ pc' = "dump"
    /\ UNCHANGED <<cmd, args, tmp, live, snapshot, resolved, launches,
                   term, runs, returned, exc, raised>>
    /\ UNCHANGED regvars

\* invoke, line 151: self.dump(tmp.name, dump_args)
Dump ==
    /\ pc = "dump"
    /\ \E outcome \in HostOutcomes(cmd, dump_args) : cmd_dump(outcome)
    /\ UNCHANGED <<cmd, args, dump_args, exec_args, tmp, live, resolved,
                   launches, runs, returned, raised>>
    /\ UNCHANGED regvars

\* GdbDumpParent.execute, lines 129-131: stdout, then stderr when not empty
execute_writes(out, err) ==
    <<Written("out", out)>>
    \o (IF err # <<>> THEN <<Written("err", err)>> ELSE <<>>)

\* an execute that fails when the tool exits with a non-zero status
execute_return_by_status(status) == IF status = 0 THEN "True" ELSE "False"

\* GdbDumpParent.execute, line 134: return True
execute_return(status) == "True"

\* the method body is pass: nothing is written
on_execute_error(t) == t

\* invoke, lines 152-153: if not self.execute(...): self.on_execute_error()
after_execute(r, t) == IF r = "False" THEN on_execute_error(t) ELSE t

\* GdbDumpParent.execute (hexdump and xmllint commands) and what invoke does
\* with its result: Popen raises OSError, or the tool runs, its stdout is
\* written, then its stderr when not empty, and the method returns True
Execute ==
    /\ pc = "execute"
    /\ cmd \notin IconvCmds
    /\ LET cmdline == commandline(cmd, tmp, exec_args)
       IN  \/ /\ exc' = "OSError"
              /\ pc' = "except"
              /\ UNCHANGED <<launches, term, runs, returned>>
           \/ \E status \in ExitStatuses, out \in OutTexts, err \in ErrTexts :
                /\ launches' = Append(launches, cmdline)
                /\ runs' = Append(runs, [shell |-> use_shell(cmdline),
                                         status |-> status, out |-> out,
                                         err |-> err, wrote |-> "ok"])
                /\ returned' = execute_return(status)
                /\ term' = after_execute(execute_return(status),
                                         term \o execute_writes(out, err))
                /\ pc' = "exit"
                /\ UNCHANGED exc
    /\ UNCHANGED <<cmd, args, dump_args, exec_args, tmp, live, snapshot,
                   resolved, raised>>
    /\ UNCHANGED regvars

\* the first loop of execute_iconv: the names the alias tokens resolve to
RECURSIVE resolve_all(_, _)
resolve_all(enc, tokens) ==
    IF tokens = <<>> THEN <<>>
    ELSE (IF IconvEncodings_name(enc, Head(tokens)) # None
          THEN <<IconvEncodings_name(enc, Head(tokens))>> ELSE <<>>)
         \o resolve_all(enc, Tail(tokens))

\* the error lines of that loop, one per alias that does not resolve
RECURSIVE unknown_alias_errors(_, _)
unknown_alias_errors(enc, tokens) ==
    IF tokens = <<>> THEN <<>>
    ELSE (IF IconvEncodings_name(enc, Head(tokens)) = None
          THEN <<Written("error: unknown encoding alias", Head(tokens))>>
          ELSE <<>>)
         \o unknown_alias_errors(enc, Tail(tokens))

\* width = max(map(len, encodings)) raises ValueError on an empty list
width_raises(encs) == encs = <<>>

\* execute_iconv, lines 383-397
IconvResolve ==
    /\ pc = "execute"
    /\ cmd \in IconvCmds
    /\ LET tokens == SplitWords(exec_args)
           encs == resolve_all(encodings, tokens)
           errs == unknown_alias_errors(encodings, tokens)
       IN  /\ resolved' = encs
           /\ IF width_raises(encs)
              THEN /\ term' = term \o errs
                   /\ exc' = "ValueError"
                   /\ pc' = "except"
              ELSE /\ term' = term \o errs
                                \o <<Written("Target encoding is", defenc)>>
                   /\ exc' = "none"
                   /\ pc' = "iconv"
    /\ UNCHANGED <<cmd, args, dump_args, exec_args, tmp, live, snapshot,
                   launches, runs, returned, raised>>
    /\ UNCHANGED regvars

\* errbuf.partition("\n")[0]
FirstLine(s) ==
    IF Find(s, <<"\n">>) < 0 THEN s ELSE Slice(s, 0, Find(s, <<"\n">>))

S_iconv_colon == <<"i", "c", "o", "n", "v", ":", " ">>

\* IconvImpl.format_error: the first line from "iconv: " on; the function
\* ends without a return statement when the first line has no "iconv: "
format_error(errbuf) ==
    LET msg == FirstLine(errbuf)
        idx == Find(msg, S_iconv_colon)
    IN  IF idx >= 0 THEN Slice(msg, idx, Len(msg)) ELSE None

\* what one run of iconv and the writes of its report may do: a conversion
\* that succeeds or fails with or without a message, messages of the three
\* shapes, and a text that the sys.stdout of gdb refuses with TypeError
IconvOutcomes ==
    {[status |-> st, out |-> <<"o", "k">>, err |-> e, wrote |-> "ok"] :
        st \in ExitStatuses, e \in {<<>>, E_plain}}
    \cup {[status |-> 1, out |-> <<>>, err |-> e, wrote |-> "ok"] :
            e \in {E_path, E_other}}
    \cup {[status |-> 0, out |-> <<"o", "k">>, err |-> <<>>,
           wrote |-> "TypeError"]}

\* execute_iconv, lines 408-416: the report of one run
iconv_report(enc, o) ==
    <<Written("encoding: ", enc)>>
    \o (IF o.wrote = "ok"
        THEN <<Written("|out|", o.out)>>
        ELSE <<Written("newline", <<>>),
               Written("error: TypeError", <<>>),
               Written("error: Try to change the default encoding", <<>>)>>)
    \o (IF o.err # <<>>
        THEN <<Written("diagnostic", PercentS(format_error(o.err)))>>
        ELSE <<>>)

\* a loop that stops after a run that exited with a non-zero status
loop_done_or_failed(encs, rs) ==
    \/ Len(rs) = Len(encs)
    \/ rs # <<>> /\ rs[Len(rs)].status # 0

\* for enc in encodings: the loop ends when every name has had its turn
loop_done(encs, rs) == Len(rs) = Len(encs)

\* execute_iconv, lines 399-416: one turn of the loop over the resolved names
IconvRun ==
    /\ pc = "iconv"
    /\ ~loop_done(resolved, runs)
    /\ LET enc == resolved[Len(runs) + 1]
       IN  \/ /\ exc' = "OSError"
              /\ pc' = "except"
              /\ UNCHANGED <<launches, term, runs>>
           \/ \E o \in IconvOutcomes :
                /\ launches' = Append(launches, iconv_cmdline(tmp, defenc, enc))
                /\ runs' = Append(runs, [shell |-> FALSE, status |-> o.status,
                                         out |-> o.out, err |-> o.err,
                                         wrote |-> o.wrote])
                /\ term' = term \o iconv_report(enc, o)
                /\ UNCHANGED <<exc, pc>>
    /\ UNCHANGED <<cmd, args, dump_args, exec_args, tmp, live, snapshot,
                   resolved, returned, raised>>
    /\ UNCHANGED regvars

\* execute_iconv, line 417: return True, and what invoke does with it
IconvReturn ==
    /\ pc = "iconv"
    /\ loop_done(resolved, runs)
    /\ returned' = "True"
    /\ term' = after_execute("True", term)
    /\ pc' = "exit"
    /\ UNCHANGED <<cmd, args, dump_args, exec_args, tmp, live, snapshot,
                   resolved, launches, runs, exc, raised>>
    /\ UNCHANGED regvars

\* invoke, lines 154-158: a RuntimeError is printed and dropped, anything else
\* is reported with the generic message and re-raised
Except ==
    /\ pc = "except"
    /\ IF exc = "RuntimeError"
       THEN /\ term' = Append(term, Written("print e", <<>>))
            /\ exc' = "none"
       ELSE /\ term' = Append(term,
                 Written("error: an exception occurred during excution", <<>>))
            /\ UNCHANGED exc
    /\ pc' = "exit"
    /\ UNCHANGED <<cmd, args, dump_args, exec_args, tmp, live, snapshot,
                   resolved, launches, runs, returned, raised>>
    /\ UNCHANGED regvars

\* the temporary file closed after the dump, before the tool is run
ReleaseBeforeExecute ==
    /\ pc = "execute"
    /\ tmp \in live
    /\ live' = with_exit(live, tmp, exc)
    /\ UNCHANGED <<pc, cmd, args, dump_args, exec_args, tmp, snapshot, resolved,
                   launches, term, runs, returned, exc, raised>>
    /\ UNCHANGED regvars

\* invoke, line 144: the with block is left and the exception, if any, goes on
\* to gdb
Release ==
    /\ pc = "exit"
    /\ live' = with_exit(live, tmp, exc)
    /\ raised' = exc
    /\ exc' = "none"
    /\ pc' = "done"
    /\ UNCHANGED <<cmd, args, dump_args, exec_args, tmp,  snapshot,
                   resolved, launches, term, runs, returned>>
    /\ UNCHANGED regvars

\* gdb is back at its prompt; what the finished invocation left is gone
Prompt ==
    /\ pc = "done"
    /\ pc' = "idle"
    /\ cmd' = "none"
    /\ args' = <<>>
    /\ dump_args' = <<>>
    /\ exec_args' = <<>>
    /\ tmp' = 0
    /\ snapshot' = "none"
    /\ resolved' = <<>>
    /\ launches' = <<>>
    /\ term' = <<>>
    /\ runs' = <<>>
    /\ returned' = "none"
    /\ raised' = "none"
    /\ UNCHANGED <<live, exc>>
    /\ UNCHANGED regvars

S_euc_kr == <<"e", "u", "c", "_", "k", "r">>

\* what the operator gives `iconv encoding`
EncodingArgs ==
    {<<>>, <<"u", "t", "f", "_", "8">>, <<"#">>, <<"b", "o", "g", "u", "s">>,
     <<" ", "#">> \o S_euc_kr}

\* a runtime that takes any name
setdefaultencoding_any(cur, enc) == enc

\* sys.setdefaultencoding(enc): LookupError for a name Python has no codec
\* for, and the default stays what it was
setdefaultencoding(cur, enc) == IF enc \in PythonCodecs THEN enc ELSE cur

\* IconvEncodingCommand.invoke
EncodingInvoke ==
    /\ pc = "idle"
    /\ ~encodings.isNone
    /\ \E a \in EncodingArgs :
         LET arg == Strip(a)
             enc == IconvEncodings_name(encodings, arg)
         IN  /\ cmd' = "iconv encoding"
             /\ args' = a
             /\ IF arg = <<>>
                THEN /\ term' = <<Written("print", defenc)>>
                     /\ defenc' = defenc
                ELSE IF enc # None
                THEN /\ defenc' = setdefaultencoding(defenc, enc)
                     /\ term' = IF setdefaultencoding(defenc, enc) = enc
                                THEN <<>>
                                ELSE <<Written("error: encoding is not supported by Python", enc)>>
                ELSE /\ term' = <<Written("error: invalid encoding alias", arg)>>
                     /\ defenc' = defenc
    /\ UNCHANGED <<encodings, keyorder, listed, queries, loadraised,
                   constructions, completion>>
    /\ UNCHANGED <<pc, dump_args, exec_args, tmp, live, snapshot, resolved,
                   launches, runs, returned, exc, raised>>

\* iconv -l as the script saw it when it was loaded
LoadedListing == Line(N_UTF8) \o Line(N_UTF16) \o Line(N_EUCKR)

\* the order CPython 2.7 iterates the dict built from LoadedListing in
LoadedKeyOrder ==
    << <<>>, <<"u", "t", "f", "_", "8">>, <<"u", "t", "f", "_", "1", "6">>,
       <<"e", "u", "c", "_", "k", "r">> >>

\* after the script was loaded: the three iconv command objects exist and the
\* first of them built the registry
Init ==
    /\ encodings = SomeDict(supported_encodings(LoadedListing))
    /\ keyorder = LoadedKeyOrder
    /\ listed = [kind |-> "ran", out |-> LoadedListing, status |-> 0]
    /\ queries = 1
    /\ loadraised = 0
    /\ constructions = 3
    /\ defenc \in {N_ASCII, N_UTF8}
    /\ completion = NoCompletion
    /\ InitIdle
    /\ args = <<>>
    /\ dump_args = <<>>
    /\ exec_args = <<>>

Next ==
    \/ InvokeEnter
    \/ ParseArguments
    \/ Dump
    \/ Execute
    \/ IconvResolve
    \/ IconvRun
    \/ IconvReturn
    \/ Except
    \/ Release
    \/ Prompt
    \/ EncodingInvoke

\* the commands of the loaded script, one at a time
Spec == Init /\ [][Next]_vars

(***************************************************************************)
(* The partitioners on their own, over every short argument string.        *)
(***************************************************************************)
ArgAlphabet == {"a", "+", " ", "#"}

S_A_B == <<"A", " ", "#", "#", " ", "B">>

ArgStrings ==
    StringsUpTo(ArgAlphabet, MaxArgLen)
    \cup UNION {RawArgs(c) : c \in Cmds}
    \cup {S_A_B, <<"A">>}

\* parse_arguments of one command applied to the string
ParseOnly ==
    /\ pc = "idle"
    /\ cmd = "none"
    /\ \E c \in Cmds :
         /\ cmd' = c
         /\ dump_args' = parse_arguments(c, args)[1]
         /\ exec_args' = parse_arguments(c, args)[2]
    /\ UNCHANGED <<args, pc, tmp, live, snapshot, resolved, launches, term,
                   runs, returned, exc, raised>>
    /\ UNCHANGED regvars

InitPartition ==
    /\ encodings = NoneDict
    /\ keyorder = <<>>
    /\ listed = NotListed
    /\ queries = 0
    /\ loadraised = 0
    /\ constructions = 0
    /\ defenc = N_ASCII
    /\ completion = NoCompletion
    /\ InitIdle
    /\ args \in ArgStrings
    /\ dump_args = <<>>
    /\ exec_args = <<>>

NextPartition == ParseOnly

\* every argument string, partitioned by every command
SpecPartition == InitPartition /\ [][NextPartition]_vars

(***************************************************************************)
(* Properties of the export pipeline (checked under Spec).                 *)
(***************************************************************************)

\* C1: an invocation of an export command holds exactly one temporary file
\* while it runs, the one it created, and none is left once it has returned,
\* whether it returned normally or with an exception.
C1_ArtifactReleased ==
    /\ pc \in {"idle", "done"} => live = {}
    /\ pc \notin {"idle", "done"} => live = {tmp}

\* C1 witness: an invocation ended by propagating an exception.
C1_Witness == pc = "done" /\ raised = "ValueError"

\* C2 (as claimed): once the snapshot request of an invocation has reported an
\* error, no tool is launched in that invocation.
C2_SnapshotErrorSkipsTool == snapshot = "error" => launches = <<>>

\* C3 (as claimed): a memory-range command whose selector has fewer than two
\* words never reaches the host snapshot service.
C3_MissingEndRejected ==
    (cmd \in MemoryCmds /\ pc \notin {"idle", "parse"}
        /\ Len(SplitWords(dump_args)) < 2)
    => snapshot = "none"

\* the alias tokens of the current iconv command line that do not resolve
UnresolvedTokens ==
    {i \in 1..Len(SplitWords(exec_args)) :
        IconvEncodings_name(encodings, SplitWords(exec_args)[i]) = None}

\* C10 (as claimed): an iconv command given an alias that does not resolve
\* raises nothing because of it, and has run iconv once per alias that does
\* resolve by the time it returns (unless launching iconv or gdb itself failed).
C10_UnknownAliasNotFatal ==
    (pc = "done" /\ cmd \in IconvCmds /\ UnresolvedTokens # {}
        /\ raised \notin {"KeyboardInterrupt", "OSError"})
    => /\ raised = "none"
       /\ Len(launches) = Len(SplitWords(exec_args)) - Cardinality(UnresolvedTokens)

(***************************************************************************)
(* Properties of the partitioners (checked under SpecPartition).           *)
(***************************************************************************)
MarkerAt(a, i) == MatchesAt(a, Marker, i)

\* the pair obtained by cutting a at the marker that starts at index i
CutAt(a, i) == <<Strip(Slice(a, 0, i)), Strip(Slice(a, i + 2, Len(a)))>>

\* C4 (as claimed): the hexdump and xmllint partitioners cut the string at the
\* first "##": selector before it, tail after it; without "##" the selector is
\* the whole string and the tail is empty.
C4_SplitAtFirstMarker ==
    (cmd \in HexdumpCmds \cup XmllintCmds)
    => \/ /\ \A i \in 0..Len(args) : ~MarkerAt(args, i)
          /\ <<dump_args, exec_args>> = <<args, <<>>>>
       \/ \E i \in 0..Len(args) :
            /\ MarkerAt(args, i)
            /\ \A j \in 0..(i - 1) : ~MarkerAt(args, j)
            /\ <<dump_args, exec_args>> = CutAt(args, i)

\* C5 (as claimed): whatever the command, neither component of the partition
\* starts or ends with whitespace.
C5_ComponentsTrimmed ==
    cmd # "none" => Strip(dump_args) = dump_args /\ Strip(exec_args) = exec_args

(***************************************************************************)
(* Properties of the alias registry (checked under SpecRegistry).          *)
(***************************************************************************)
\* the lines of the listing the registry was built from
ListedLines == SplitOn(listed.out, "\n")

Punctuation == {".", "/", ":", "-", "(", ")"}

\* the alias of a name, character by character
AliasOf(n) == [i \in 1..Len(n) |-> IF n[i] \in Punctuation THEN "_" ELSE Lower(n[i])]

\* the line without its trailing slashes
StrippedOf(line) ==
    CHOOSE p \in {SubSeq(line, 1, k) : k \in 0..Len(line)} :
        /\ p = <<>> \/ p[Len(p)] # "/"
        /\ \A j \in (Len(p) + 1)..Len(line) : line[j] = "/"

\* the lines whose name has the alias a
LinesOf(a) == {i \in 1..Len(ListedLines) : AliasOf(StrippedOf(ListedLines[i])) = a}

S_iso_8859_1 == <<"i", "s", "o", "_", "8", "8", "5", "9", "_", "1">>

\* C6 (as claimed): the registry maps the alias of every listed name to that
\* name without its trailing slashes.
C6_AliasMapsToItsName ==
    ~encodings.isNone =>
        \A i \in 1..Len(ListedLines) :
            LET n == StrippedOf(ListedLines[i])
            IN  /\ AliasOf(n) \in DOMAIN encodings.items
                /\ encodings.items[AliasOf(n)] = n

\* C6 (amended): the keys of the registry are exactly the aliases of the listed
\* names, each the name lower-cased with . / : - ( ) replaced by "_", and a key
\* maps to the slash-stripped name, in its original spelling, of the last line
\* that has this alias; ISO-8859-1 has the alias iso_8859_1.
C6_AliasIsFunctionOfName ==
    /\ derive_alias(canonical_name(N_ISO1 \o <<"/", "/">>)) = S_iso_8859_1
    /\ ~encodings.isNone =>
        /\ DOMAIN encodings.items
             = {AliasOf(StrippedOf(ListedLines[i])) : i \in 1..Len(ListedLines)}
        /\ \A a \in DOMAIN encodings.items :
             encodings.items[a] = StrippedOf(ListedLines[Max(LinesOf(a))])

\* C6 witness: a registry built from names with upper-case letters, trailing
\* slashes and each of the replaced characters.
C6_Witness ==
    /\ ~encodings.isNone
    /\ derive_alias(N_PUNCT) \in DOMAIN encodings.items
    /\ encodings.items[derive_alias(N_PUNCT)] = N_PUNCT
    /\ encodings.items[derive_alias(N_ISO10)] = N_ISO10

IsPrefix(w, a) == Len(w) <= Len(a) /\ SubSeq(a, 1, Len(w)) = w

\* where key a stands in the sequence order
PositionIn(order, a) == CHOOSE i \in 1..Len(order) : order[i] = a

\* C7 (as claimed): the completions are the keys that begin with the word, each
\* once, in the order in which the keys were first inserted.
C7_CompletionsInInsertionOrder ==
    completion.called =>
        LET r == completion.result
        IN  /\ {r[i] : i \in 1..Len(r)}
                 = {a \in DOMAIN encodings.items : IsPrefix(completion.word, a)}
            /\ \A i, j \in 1..Len(r) :
                 i < j => Min(LinesOf(r[i])) < Min(LinesOf(r[j]))

\* C7 (amended): the completions are the keys that begin with the word, each
\* once, in the order in which the dict iterates its keys.
C7_CompletionsArePrefixKeys ==
    completion.called =>
        LET r == completion.result
        IN  /\ {r[i] : i \in 1..Len(r)}
                 = {a \in DOMAIN encodings.items : IsPrefix(completion.word, a)}
            /\ \A i, j \in 1..Len(r) :
                 i < j => PositionIn(keyorder, r[i]) < PositionIn(keyorder, r[j])

\* C7 witness: a completion that keeps two keys and drops another that
\* contains the word further in.
C7_Witness ==
    /\ completion.called
    /\ Len(completion.result) = 2
    /\ \E a \in DOMAIN encodings.items : Find(a, completion.word) > 0

\* C8 (as claimed): iconv -l is run at most once, whatever the constructions
\* did.
C8_QueriedAtMostOnce == queries <= 1

\* C8 (amended): iconv -l is run once by each construction that finds no
\* registry; a construction that raised leaves none, so the next one runs it
\* again; once the registry is built it stays as built and no construction runs
\* iconv -l any more.
C8_QueriedUntilLoaded ==
    /\ queries = loadraised + (IF encodings.isNone THEN 0 ELSE 1)
    /\ queries <= constructions
    /\ ~encodings.isNone =>
         /\ listed.kind = "ran"
         /\ encodings.items = supported_encodings(listed.out)

\* C8 witness: a load raised, the next construction loaded, a third one
\* reused the registry.
C8_Witness ==
    /\ constructions = 3
    /\ loadraised = 1
    /\ queries = 2
    /\ ~encodings.isNone

\* C9 (as claimed): when iconv -l could not be started or exited with a
\* non-zero status, no registry is installed.
C9_FailedLoadInstallsNothing ==
    (listed.kind = "oserror" \/ (listed.kind = "ran" /\ listed.status # 0))
    => encodings.isNone

(***************************************************************************)
(* Properties of the tool runs and their reports (checked under Spec).     *)
(***************************************************************************)
\* the writes that open the report of one iconv run, in order
ReportLines == SelectSeq(term, LAMBDA w : w.what = "encoding: ")

\* the exception in flight, or the one the finished invocation propagated
Propagating == IF pc = "done" THEN raised ELSE exc

\* C11: in an iconv command, the runs so far are one per resolved name, in the
\* order of the names, each "iconv -t <default encoding> -f <name> <file>", each
\* with its report line, whatever the earlier runs exited with; and once
\* execute_iconv is over every resolved name has had its run, unless iconv
\* could not be started.
C11_EveryEncodingAttempted ==
    cmd \in IconvCmds =>
        /\ Len(launches) = Len(runs)
        /\ Len(runs) <= Len(resolved)
        /\ \A i \in 1..Len(launches) :
             /\ launches[i].tool = "iconv"
             /\ launches[i].islist
             /\ launches[i].target = defenc
             /\ launches[i].source = resolved[i]
             /\ launches[i].file = tmp
        /\ Len(ReportLines) = Len(runs)
        /\ \A i \in 1..Len(ReportLines) : ReportLines[i].text = resolved[i]
        /\ (pc \in {"exit", "done"} /\ Propagating # "OSError")
             => Len(runs) = Len(resolved)

\* C11 witness: the first of two conversions failed with a message and the
\* second one was still run.
C11_Witness ==
    /\ pc = "done"
    /\ cmd \in IconvCmds
    /\ raised = "none"
    /\ Len(runs) = 2
    /\ runs[1].status # 0
    /\ runs[1].err # <<>>
    /\ launches[2].source = resolved[2]

GenericMessage == Written("error: an exception occurred during excution", <<>>)

\* an exception was raised somewhere inside the invocation that is now over
FaultRaised ==
    \/ snapshot \in {"error", "interrupted"}
    \/ \E i \in 1..Len(runs) : runs[i].wrote = "TypeError"
    \/ raised # "none"

\* C12 (as claimed): when an exception was raised inside an invocation (by the
\* snapshot, the tool launch or the report), the invocation has written the
\* generic message and has propagated an exception to gdb.
C12_FaultsReportedAndReraised ==
    (pc = "done" /\ FaultRaised)
    => /\ raised # "none"
       /\ \E i \in 1..Len(term) : term[i] = GenericMessage

C14_HexdumpInvocation ==
    /\ (cmd \in HexdumpCmds /\ launches # <<>>) =>
          /\ Len(launches) = 1
          /\ launches[1].tool = "hexdump"
          /\ launches[1].file = tmp
          /\ exec_args = <<>> =>
                launches[1].islist /\ launches[1].mid = <<"-", "C">>
          /\ exec_args # <<>> =>
                ~launches[1].islist /\ launches[1].mid = exec_args
    /\ Len(runs) = Len(launches)
    /\ \A i \in 1..Len(launches) : runs[i].shell = ~launches[i].islist

\* C14 witness: hexdump was run with a tail, through a shell.
C14_Witness ==
    /\ pc = "done"
    /\ cmd \in HexdumpCmds
    /\ exec_args = <<"-", "b">>
    /\ Len(runs) = 1
    /\ runs[1].shell

\* the encoding names iconv -l listed: its lines without their trailing
\* slashes, the empty text after the last newline not being one
ListedNames ==
    {StrippedOf(ListedLines[i]) : i \in 1..Len(ListedLines)} \ {<<>>}

WithoutMarker(tok) == LStripSet(tok, {"#"})

\* what the claim has a token resolve to
ClaimedName(tok) ==
    IF \E n \in ListedNames : AliasOf(n) = WithoutMarker(tok)
    THEN StrippedOf(ListedLines[Max(LinesOf(WithoutMarker(tok)))])
    ELSE None

\* the tokens of the command line that the claim has resolve, by position
KnownTokens ==
    {i \in 1..Len(SplitWords(exec_args)) :
        ClaimedName(SplitWords(exec_args)[i]) # None}

NthKnown(k) ==
    CHOOSE i \in KnownTokens : Cardinality({j \in KnownTokens : j <= i}) = k

\* C15 (as claimed): once an iconv command has resolved its tokens, the names
\* it goes on with are those of the tokens that, without the leading "#", are
\* the alias of a listed encoding name; every other token, the marker alone
\* included, resolves to None and is left out.
C15_ResolveKnownAliasesOnly ==
    (cmd \in IconvCmds /\ snapshot \in {"ok", "error"} /\ pc # "execute")
    => /\ Len(resolved) = Cardinality(KnownTokens)
       /\ \A k \in 1..Len(resolved) :
            resolved[k] = ClaimedName(SplitWords(exec_args)[NthKnown(k)])

\* C16: after a hexdump or xmllint command has run its tool, the terminal
\* holds, after what the snapshot wrote, the stdout of the tool as it was
\* captured, then its stderr exactly when that is not empty, and nothing else;
\* execute has returned True and no exception is under way, whatever the exit
\* status.
C16_OutputThenErrors ==
    (cmd \in HexdumpCmds \cup XmllintCmds /\ runs # <<>>)
    => LET r == runs[1]
           before == IF snapshot = "error" THEN 1 ELSE 0
       IN  /\ Len(runs) = 1
           /\ Len(term) = before + 1 + (IF r.err # <<>> THEN 1 ELSE 0)
           /\ term[before + 1] = Written("out", r.out)
           /\ r.err # <<>> => term[before + 2] = Written("err", r.err)
           /\ returned = "True"
           /\ Propagating = "none"

\* C16 witness: the tool exited with a non-zero status and wrote to both
\* streams.
C16_Witness ==
    /\ pc = "done"
    /\ cmd \in XmllintCmds
    /\ Len(runs) = 1
    /\ runs[1].status # 0
    /\ runs[1].out # <<>>
    /\ runs[1].err # <<>>
    /\ returned = "True"

(***************************************************************************)
(* The pattern of IconvImpl (checked under SpecPartition).                 *)
(***************************************************************************)
\* a whitespace-separated token of a starts at index i and is "#" followed by
\* one or more alias characters and nothing else
AliasTokenAt(a, i) ==
    /\ i = 0 \/ a[i] \in Whitespace
    /\ i + 2 <= Len(a)
    /\ a[i + 1] = "#"
    /\ \E j \in (i + 2)..Len(a) :
         /\ \A k \in (i + 2)..j : a[k] \in AliasChars
         /\ j = Len(a) \/ a[j + 1] \in Whitespace

AliasTokenStarts(a) == {i \in 0..Len(a) : AliasTokenAt(a, i)}

\* C17 (as claimed): an iconv command cuts its argument string in two at the
\* first whitespace-separated token that is "#" and alias characters (the
\* blanks before the token going to either side); a "#" further inside a
\* token cuts nothing; without such a token the selector is the whole string
\* and the tail is empty.
C17_SplitAtFirstAliasToken ==
    cmd \in IconvCmds
    => IF AliasTokenStarts(args) = {}
       THEN <<dump_args, exec_args>> = <<args, <<>>>>
       ELSE LET i == Min(AliasTokenStarts(args))
            IN  /\ dump_args \o exec_args = args
                /\ Len(dump_args) <= i
                /\ \A k \in (Len(dump_args) + 1)..i : args[k] = " "

(***************************************************************************)
(* Aliases shared by several names (checked under SpecRegistry).           *)
(***************************************************************************)
\* the aliases that two different listed names have
CollidingAliases ==
    {a \in {AliasOf(StrippedOf(ListedLines[i])) : i \in 1..Len(ListedLines)} :
        \E i, j \in LinesOf(a) :
            StrippedOf(ListedLines[i]) # StrippedOf(ListedLines[j])}

\* C18: whatever iconv -l listed, names with a common alias included, the
\* build installs a registry and writes nothing (the terminal holds only the
\* messages of the constructions that raised before); an alias that several
\* names have maps to the one listed last, and every alias maps to one name,
\* a listed name of which it is the alias.
C18_LaterNameWins ==
    listed.kind = "ran"
    => /\ ~encodings.isNone
       /\ Len(term) = loadraised
       /\ \A a \in CollidingAliases :
            /\ a \in DOMAIN encodings.items
            /\ encodings.items[a] = StrippedOf(ListedLines[Max(LinesOf(a))])
       /\ \A a \in DOMAIN encodings.items :
            \E i \in LinesOf(a) : encodings.items[a] = StrippedOf(ListedLines[i])

\* C18 witness: ISO-8859-1 and, after it, ISO_8859-1 were listed, and the
\* alias they share has the second name.
C18_Witness ==
    /\ ~encodings.isNone
    /\ listed.out = Line(N_ISO1) \o Line(N_ISO1U)
    /\ S_iso_8859_1 \in CollidingAliases
    /\ encodings.items[S_iso_8859_1] = N_ISO1U

(***************************************************************************)
(* The diagnostic of an iconv run (checked under Spec).                    *)
(***************************************************************************)
\* the text up to the first newline
UpToNewline(e) ==
    LET nl == {i \in 1..Len(e) : e[i] = "\n"}
    IN  IF nl = {} THEN e ELSE SubSeq(e, 1, Min(nl) - 1)

IsSuffix(d, l) ==
    Len(d) <= Len(l) /\ SubSeq(l, Len(l) - Len(d) + 1, Len(l)) = d

\* C19 (as claimed): right after an iconv run that wrote to stderr, the last
\* thing on the terminal is its diagnostic, and the text of the diagnostic is
\* the first line of that stderr, without its beginning if any was stripped:
\* a text, also when the line does not name the tool.
C19_DiagnosticIsFirstLine ==
    (cmd \in IconvCmds /\ pc = "iconv" /\ runs # <<>>
        /\ runs[Len(runs)].err # <<>>)
    => /\ term[Len(term)].what = "diagnostic"
       /\ IsSuffix(term[Len(term)].text, UpToNewline(runs[Len(runs)].err))

(***************************************************************************)
(* The command `iconv encoding` (checked under Spec).                      *)
(***************************************************************************)
\* C20: a step from the prompt to the prompt is an `iconv encoding` command;
\* it leaves the registry as it was, and the default encoding too, except
\* that an argument which, trimmed and without its leading "#", is a key of
\* the registry whose name Python has a codec for makes that name the default
\* encoding.
C20_DefaultChangesOnlyWhenAccepted ==
    [][ (pc = "idle" /\ pc' = "idle")
        => /\ encodings' = encodings
           /\ keyorder' = keyorder
           /\ listed' = listed
           /\ LET key == WithoutMarker(Strip(args'))
              IN  IF /\ Strip(args') # <<>>
                     /\ key \in DOMAIN encodings.items
                     /\ encodings.items[key] \in PythonCodecs
                  THEN defenc' = encodings.items[key]
                  ELSE defenc' = defenc ]_vars

\* C20 witness: `iconv encoding  #euc_kr` has made EUC-KR the default
\* encoding.
C20_Witness ==
    /\ pc = "idle"
    /\ cmd = "iconv encoding"
    /\ args = <<" ", "#">> \o S_euc_kr
    /\ defenc = N_EUCKR
    /\ term = <<>>

(***************************************************************************)
(* The order of the steps of an invocation (checked under Spec).           *)
(***************************************************************************)
\* C21: in every step of an export command, the arguments are partitioned and
\* the snapshot is requested while the temporary file of the invocation exists
\* and before any subprocess; a subprocess is started only after the snapshot
\* request has returned, while that file exists, on that file, and has exited
\* when the step is over; the file is removed only when every subprocess
\* started has exited, and none is started afterwards.
C21_StepsInOrder ==
    [][ /\ pc = "parse" =>
              tmp \in live /\ snapshot = "none" /\ launches = <<>>
        /\ (snapshot = "none" /\ snapshot' # "none") =>
              /\ pc = "dump"
              /\ tmp \in live
              /\ launches = <<>>
              /\ launches' = <<>>
        /\ Len(launches') > Len(launches) =>
              /\ snapshot \in {"ok", "error"}
              /\ tmp \in live
              /\ live' = live
              /\ Len(launches') = Len(launches) + 1
              /\ launches'[Len(launches')].file = tmp
              /\ Len(runs') = Len(launches')
        /\ live' # live =>
              \/ /\ pc = "idle"
                 /\ live' = live \cup {tmp'}
                 /\ tmp' \notin live
                 /\ launches' = <<>>
                 /\ snapshot' = "none"
              \/ /\ live' = live \ {tmp}
                 /\ pc' = "done"
                 /\ Len(runs) = Len(launches)
                 /\ launches' = launches
        /\ pc = "done" => launches' = <<>> /\ live' = live ]_vars

\* C21 witness: an invocation that got the second file name ran iconv twice on
\* it after the snapshot and has returned, the file gone.
C21_Witness ==
    /\ pc = "done"
    /\ cmd \in IconvCmds
    /\ snapshot = "ok"
    /\ tmp = 2
    /\ Len(runs) = 2
    /\ launches[1].file = 2
    /\ launches[2].file = 2
    /\ live = {}

====
